---- MODULE Spec2Model ----
(***************************************************************************)
(* Hybrid retrieval orchestration of the GraphRAG pipeline                 *)
(* (src/src/retrieval/retrieval_system.py, src/src/nlp/entity_extractor.py)*)
(*                                                                         *)
(* Strings are sequences of text atoms: a one-character atom where the     *)
(* code inspects characters (entity names, full-text queries), a literal   *)
(* fragment where the code only concatenates (questions, rows, passages,   *)
(* messages).  String concatenation is \o.                                 *)
(***************************************************************************)
EXTENDS Integers, Sequences, FiniteSets, TLC

(***************************************************************************)
(* Bounds of the model                                                     *)
(***************************************************************************)
MaxLen == 5        \* longest text given to generate_full_text_query
MaxEntities == 2   \* longest list the extraction model returns
MaxHist == 2       \* longest chat history handed to answer_question

(***************************************************************************)
(* Names the extraction model may emit: two plain ones and a blank one     *)
(***************************************************************************)
EntityNames == {<<"A">>, <<"B">>, <<" ">>}

(***************************************************************************)
(* Python string helpers                                                   *)
(***************************************************************************)
Whitespace == {" ", "\t"}

\* the characters langchain's remove_lucene_chars replaces
LuceneSpecialChars == {"+", "-", "&", "|", "!", "(", ")", "{", "}", "[", "]",
                       "^", "\"", "~", "*", "?", ":", "\\"}

Alphabet == {"a", "b", " ", "\t", "-"}

RECURSIVE lstrip(_)
lstrip(s) ==
    IF s = <<>> THEN <<>>
    ELSE IF Head(s) \in Whitespace THEN lstrip(Tail(s)) ELSE s

RECURSIVE rstrip(_)
rstrip(s) ==
    IF s = <<>> THEN <<>>
    ELSE IF s[Len(s)] \in Whitespace THEN rstrip(SubSeq(s, 1, Len(s) - 1)) ELSE s

\* str.strip()
strip(s) == rstrip(lstrip(s))

\* str.split() with no argument: runs of whitespace separate, no empty token
RECURSIVE splitFrom(_, _, _)
splitFrom(s, cur, acc) ==
    IF s = <<>> THEN (IF cur = <<>> THEN acc ELSE Append(acc, cur))
    ELSE IF Head(s) \in Whitespace
         THEN splitFrom(Tail(s), <<>>, IF cur = <<>> THEN acc ELSE Append(acc, cur))
         ELSE splitFrom(Tail(s), Append(cur, Head(s)), acc)

split(s) == splitFrom(s, <<>>, <<>>)

\* sep.join(parts)
RECURSIVE join(_, _)
join(sep, parts) ==
    IF parts = <<>> THEN <<>>
    ELSE IF Len(parts) = 1 THEN parts[1]
    ELSE parts[1] \o sep \o join(sep, Tail(parts))

\* remove_lucene_chars: every special character becomes a space, then strip
remove_lucene_chars(text) ==
    strip([k \in 1..Len(text) |->
              IF text[k] \in LuceneSpecialChars THEN " " ELSE text[k]])

(***************************************************************************)
(* RetrievalSystem.generate_full_text_query                                *)
(***************************************************************************)
\* words = [el for el in remove_lucene_chars(input_text).split() if el]
query_words(input_text) ==
    LET raw == split(remove_lucene_chars(input_text))
    IN  SelectSeq(raw, LAMBDA el : el # <<>>)

RECURSIVE query_loop(_, _)
\* for word in words[:-1]: full_text_query += f" {word}~2 AND"
query_loop(init, acc) ==
    IF init = <<>> THEN acc
    ELSE query_loop(Tail(init),
                    acc \o <<" ">> \o Head(init) \o <<"~", "2", " ", "A", "N", "D">>)

generate_full_text_query_nostrip(input_text) ==
    LET words == query_words(input_text)
        body  == query_loop(IF words = <<>> THEN <<>>
                            ELSE SubSeq(words, 1, Len(words) - 1), <<>>)
    IN  IF words # <<>>
        THEN body \o <<" ">> \o words[Len(words)] \o <<"~", "2">>
        ELSE body

generate_full_text_query(input_text) ==
    LET words == query_words(input_text)
        body  == query_loop(IF words = <<>> THEN <<>>
                            ELSE SubSeq(words, 1, Len(words) - 1), <<>>)
        full_text_query ==
            IF words # <<>>
            THEN body \o <<" ">> \o words[Len(words)] \o <<"~", "2">>
            ELSE body
    IN  strip(full_text_query)

(***************************************************************************)
(* Inputs and the answers of the external services                         *)
(***************************************************************************)
Questions == {<<"Who founded Acme?">>, <<"Where is it based?">>}

\* ChatTurn: (prior question, prior answer)
Turns == {<< <<"Who is Jane?">>, <<"A founder.">> >>,
          << <<"What is Acme?">>, <<"A company.">> >>}

RECURSIVE SeqsUpTo(_, _)
SeqsUpTo(S, n) ==
    IF n = 0 THEN {<<>>}
    ELSE LET shorter == SeqsUpTo(S, n - 1)
         IN  shorter \cup {Append(t, x) : t \in {u \in shorter : Len(u) = n - 1}, x \in S}

ChatHistories == SeqsUpTo(Turns, MaxHist)

ExtractorOutputs == SeqsUpTo(EntityNames, MaxEntities)

\* rows the graph store may return for one query
Row1 == <<"Acme - FOUNDED_BY -> Jane Doe">>
Row2 == <<"Jane Doe - WORKS_AT -> Acme">>
GraphResponses == {<<>>, <<Row1>>, <<Row1, Row2>>}

\* page_content of the documents the vector index may return
Passage1 == <<"Acme was founded in 1990.">>
Passage2 == <<"Jane Doe lives in Paris.">>
VectorResponses == {<<>>, <<Passage1>>, <<Passage1, Passage2>>}

\* text of the language model: standalone question, answer
StandaloneQuestions == {<<"Where is Acme based?">>}
AnswerTexts == {<<"Jane Doe founded Acme.">>}

\* str(e) of the exceptions the services raise
Messages == {<<"timeout">>, <<"connection refused">>}

NoValue == <<"<unset>">>

(***************************************************************************)
(* State                                                                   *)
(***************************************************************************)
VARIABLES
    api,               \* entry point running: "answer_question" or "get_context"
    pc,                \* position in the chain
    question,          \* argument question
    chat_history,      \* argument chat_history (<<>> when None or empty)
    vector_index,      \* graph_manager.vector_index is set
    input_data,        \* dict given to chain.invoke
    search_question,   \* output of _search_query, argument of retriever
    entities,          \* structured_retriever: entities
    idx,               \* structured_retriever: position of the for loop
    result,            \* structured_retriever: result
    unstructured_data, \* retriever: unstructured_data
    final_data,        \* retriever: final_data
    prompt,            \* values formatted into qa_prompt
    returned,          \* value the entry point returned
    status,            \* "running", "returned" or "raised"
    calls,             \* external calls made so far, in order
    ftq_in,            \* generate_full_text_query called on its own: argument
    ftq_out            \* ... and result

\* extract_and_clean_entities called on its own
VARIABLES
    llm_out,           \* outcome of the extraction chain
    cleaned            \* the list returned

cleanVars == <<llm_out, cleaned>>

\* load_from_wikipedia called on its own
VARIABLES
    loader_out,        \* outcome of WikipediaLoader(query).load()
    max_docs,          \* the argument max_docs
    sliced_docs        \* the list returned

wikiVars == <<loader_out, max_docs, sliced_docs>>

\* a GraphRAGPipeline and what was done with it
VARIABLES
    pipeline,          \* the pipeline object (in a UI session: session_state.pipeline)
    n_calls,           \* process_documents calls made so far
    runs,              \* per process_documents call, the stage that raised or "none"
    last_op            \* the last operation, what it gave and what it found

pipeVars == <<pipeline, n_calls, runs, last_op>>

\* the rest of the Streamlit session state
VARIABLES
    session_chat_history,  \* session_state.chat_history
    documents_processed,   \* session_state.documents_processed
    graph_stats            \* session_state.graph_stats

sessionVars == <<session_chat_history, documents_processed, graph_stats>>

\* a GraphRAGConfig, validate() and get_missing_fields() called on it
VARIABLES
    config,            \* the nine required fields after __post_init__
    validate_called,   \* validate() has returned
    is_valid,          \* ... this value
    missing_called,    \* get_missing_fields() has returned
    missing            \* ... this list

configVars == <<config, validate_called, is_valid, missing_called, missing>>

\* one call of DocumentLoader.load_from_pdf_file
VARIABLES
    pdf_pc,            \* where the call is
    pdf_file,          \* the uploaded file's bytes
    tmp_exists,        \* the temporary file is on disk
    tmp_content,       \* what has been written to it
    tmp_file_path,     \* the local tmp_file_path: None or the file's name
    pdf_failed,        \* the step that raised, "none" so far
    pdf_returned       \* the list returned

pdfVars == <<pdf_pc, pdf_file, tmp_exists, tmp_content, tmp_file_path,
             pdf_failed, pdf_returned>>

\* the state of the operations modelled on their own, after the session
extraVars == <<configVars, pdfVars>>

\* the state outside the retrieval chain and the query builder
otherVars == <<cleanVars, wikiVars, pipeVars, sessionVars, extraVars>>

vars == <<api, pc, question, chat_history, vector_index, input_data,
          search_question, entities, idx, result, unstructured_data,
          final_data, prompt, returned, status, calls, ftq_in, ftq_out,
          otherVars>>

chainVars == <<api, pc, question, chat_history, vector_index, input_data,
               search_question, entities, idx, result, unstructured_data,
               final_data, prompt, returned, status, calls>>

Call(svc, arg, ok, val) == [svc |-> svc, arg |-> arg, ok |-> ok, val |-> val]

IdleChain ==
    /\ api = "none"
    /\ pc = "idle"
    /\ question = NoValue
    /\ chat_history = <<>>
    /\ input_data = [question |-> NoValue]
    /\ search_question = NoValue
    /\ entities = <<>>
    /\ idx = 1
    /\ result = <<>>
    /\ unstructured_data = <<>>
    /\ final_data = NoValue
    /\ prompt = [context |-> NoValue, question |-> NoValue]
    /\ returned = NoValue
    /\ status = "running"
    /\ calls = <<>>

IdleClean ==
    /\ llm_out = [ok |-> TRUE, val |-> <<>>]
    /\ cleaned = NoValue

\* the outcome of a call that has not been made
Pending == [ok |-> TRUE, val |-> NoValue]

\* def load_from_wikipedia(self, query: str, max_docs: int = 4)
DefaultMaxDocs == 4

IdleWiki ==
    /\ loader_out = [ok |-> TRUE, val |-> <<>>]
    /\ max_docs = DefaultMaxDocs
    /\ sliced_docs = Pending

\* session_state.pipeline = None
None == [kind |-> "None"]

NoOp == [op |-> "none"]

IdlePipeline ==
    /\ pipeline = None
    /\ n_calls = 0
    /\ runs = <<>>
    /\ last_op = NoOp

\* initialize_session_state
IdleSession ==
    /\ session_chat_history = <<>>
    /\ documents_processed = FALSE
    /\ graph_stats = [nodes |-> 0, relationships |-> 0]

\* the fields of the class: the same nine in validate and get_missing_fields
RequiredFields == <<"azure_openai_endpoint", "azure_openai_key",
                    "azure_openai_deployment", "azure_api_version",
                    "neo4j_uri", "neo4j_username", "neo4j_password",
                    "hf_token", "groq_api_key">>

FieldNames == {RequiredFields[k] : k \in 1..Len(RequiredFields)}

\* GraphRAGConfig() with no argument and no environment variable set
IdleConfig ==
    /\ config = [f \in FieldNames |-> None]
    /\ validate_called = FALSE
    /\ is_valid = FALSE
    /\ missing_called = FALSE
    /\ missing = <<>>

\* load_from_pdf_file not called: no temporary file
IdlePdf ==
    /\ pdf_pc = "idle"
    /\ pdf_file = <<>>
    /\ tmp_exists = FALSE
    /\ tmp_content = <<>>
    /\ tmp_file_path = None
    /\ pdf_failed = "none"
    /\ pdf_returned = Pending

IdleExtra == IdleConfig /\ IdlePdf

IdleOthers == IdleClean /\ IdleWiki /\ IdlePipeline /\ IdleSession /\ IdleExtra

\* RetrievalSystem not called
IdleRetrieval ==
    /\ IdleChain
    /\ vector_index = FALSE
    /\ ftq_in = <<>>
    /\ ftq_out = NoValue

Init ==
    /\ IdleChain
    /\ vector_index \in BOOLEAN
    /\ ftq_in = <<>>
    /\ ftq_out = NoValue
    /\ IdleOthers

(***************************************************************************)
(* Outcome of a call: a value, or an exception with its message            *)
(***************************************************************************)
Ok(v) == [ok |-> TRUE, val |-> v]
Err(m) == [ok |-> FALSE, val |-> m]

\* failures of the language model in the chain, of the other services
LlmFailures == {Err(m) : m \in Messages}
ServiceFailures == {Err(<<"connection refused">>)}

(***************************************************************************)
(* EntityExtractor.extract_entities: try / except around the chain         *)
(***************************************************************************)
extract_entities_reraise(outcome) == outcome

extract_entities(outcome) ==
    IF outcome.ok THEN Ok(outcome.val) ELSE Ok(<<>>)

(***************************************************************************)
(* RetrievalSystem._format_chat_history and the condense branch            *)
(***************************************************************************)
HumanMessage(content) == [type |-> "human", content |-> content]
AIMessage(content) == [type |-> "ai", content |-> content]

RECURSIVE format_chat_history_swapped(_)
format_chat_history_swapped(h) ==
    IF h = <<>> THEN <<>>
    ELSE <<AIMessage(Head(h)[2]), HumanMessage(Head(h)[1])>>
             \o format_chat_history_swapped(Tail(h))

RECURSIVE format_chat_history(_)
format_chat_history(h) ==
    IF h = <<>> THEN <<>>
    ELSE <<HumanMessage(Head(h)[1]), AIMessage(Head(h)[2])>>
             \o format_chat_history(Tail(h))

HasChatHistoryCheck_always(x) == TRUE

\* bool(x.get("chat_history"))
HasChatHistoryCheck(x) ==
    "chat_history" \in DOMAIN x /\ x["chat_history"] # <<>>

\* input of CONDENSE_QUESTION_PROMPT: RunnablePassthrough.assign(chat_history=
\* _format_chat_history(x["chat_history"])); a missing key is a KeyError
condense_input(x) ==
    IF "chat_history" \in DOMAIN x
    THEN Ok([chat_history |-> format_chat_history(x["chat_history"]),
             question |-> x["question"]])
    ELSE Err(<<"'chat_history'">>)

condense_step_fallback(x, outcome) ==
    IF outcome.ok THEN outcome ELSE Ok(x["question"])

\* the condense branch has no try / except: what the call gives or raises is
\* what _search_query gives or raises
condense_step(x, outcome) == outcome

(***************************************************************************)
(* RetrievalSystem.structured_retriever: one turn of the for loop          *)
(***************************************************************************)
\* if not entity.strip(): continue
entity_skipped(entity) == strip(entity) = <<>>

structured_step_prepend(res, outcome) ==
    IF outcome.ok THEN Ok(join(<<"\n">>, outcome.val) \o res) ELSE Ok(res)

structured_step_abort(res, outcome) ==
    IF outcome.ok THEN Ok(res \o join(<<"\n">>, outcome.val)) ELSE outcome

\* try: response = graph.query(...); result += "\n".join(rows)  except: print
structured_step(res, outcome) ==
    IF outcome.ok THEN Ok(res \o join(<<"\n">>, outcome.val)) ELSE Ok(res)

(***************************************************************************)
(* RetrievalSystem.retriever: vector search and the combined context       *)
(***************************************************************************)
similarity_step_reraise(outcome) == outcome

similarity_step_errtext(outcome) ==
    IF outcome.ok THEN Ok(outcome.val) ELSE Ok(<<outcome.val>>)

\* try: docs = similarity_search(question); [doc.page_content ...] except: print
similarity_step(outcome) ==
    IF outcome.ok THEN Ok(outcome.val) ELSE Ok(<<>>)

combine_swapped(structured_data, unstructured) ==
    <<"Unstructured data:", "\n">> \o join(<<"#Document ">>, unstructured)
        \o <<"\n", "\n", "Structured data:", "\n">> \o structured_data

\* f"Structured data:\n{structured_data}\n\nUnstructured data:\n{...join...}"
combine(structured_data, unstructured) ==
    <<"Structured data:", "\n">> \o structured_data
        \o <<"\n", "\n", "Unstructured data:", "\n">>
        \o join(<<"#Document ">>, unstructured)

(***************************************************************************)
(* The main chain and RetrievalSystem.answer_question                      *)
(***************************************************************************)
\* str() of a (question, answer) tuple and of the list of them
repr_turn(t) == <<"('">> \o t[1] \o <<"', '">> \o t[2] \o <<"')">>

repr_history(h) ==
    <<"[">> \o join(<<", ">>, [k \in 1..Len(h) |-> repr_turn(h[k])]) \o <<"]">>

\* str(x) of the input dict, as the prompt template formats {question}
repr_input(x) ==
    <<"{'question': '">> \o x["question"] \o <<"'">>
        \o (IF "chat_history" \in DOMAIN x
            THEN <<", 'chat_history': ">> \o repr_history(x["chat_history"])
            ELSE <<>>)
        \o <<"}">>

\* RunnableParallel: "context" is _search_query | retriever,
\* "question" is RunnablePassthrough(), the whole input of the chain
qa_prompt_input(x, context) ==
    [context |-> context, question |-> repr_input(x)]

answer_question_except_bare(outcome) ==
    IF outcome.ok THEN outcome ELSE Ok(<<"Error generating answer: ">>)

\* try: return chain.invoke(...) except Exception as e: return f"Error ...{e}"
answer_question_except(outcome) ==
    IF outcome.ok THEN outcome
    ELSE Ok(<<"Error generating answer: ">> \o outcome.val)

\* what the entry point running does with the outcome of its body
entry_outcome(outcome) ==
    IF api = "answer_question" THEN answer_question_except(outcome) ELSE outcome

Finish(outcome) ==
    LET e == entry_outcome(outcome)
    IN  /\ pc' = "done"
        /\ status' = (IF e.ok THEN "returned" ELSE "raised")
        /\ returned' = e.val

(***************************************************************************)
(* Actions: one per entry point and per external call of the chain         *)
(***************************************************************************)
\* answer_question(question, chat_history): input_data, then chain.invoke
answer_question(q, h) ==
    /\ pc = "idle"
    /\ api' = "answer_question"
    /\ question' = q
    /\ chat_history' = h
    /\ input_data' = (IF h # <<>> THEN [question |-> q, chat_history |-> h]
                      ELSE [question |-> q])
    /\ pc' = "search_query"
    /\ UNCHANGED <<vector_index, search_question, entities, idx, result,
                   unstructured_data, final_data, prompt, returned, status,
                   calls, ftq_in, ftq_out, otherVars>>

\* get_context(question): return self.retriever(question)
get_context(q) ==
    /\ pc = "idle"
    /\ api' = "get_context"
    /\ question' = q
    /\ search_question' = q
    /\ pc' = "extract"
    /\ UNCHANGED <<chat_history, vector_index, input_data, entities, idx,
                   result, unstructured_data, final_data, prompt, returned,
                   status, calls, ftq_in, ftq_out, otherVars>>

\* _search_query, default branch: RunnableLambda(lambda x: x["question"])
search_query_passthrough ==
    /\ pc = "search_query"
    /\ ~HasChatHistoryCheck(input_data)
    /\ search_question' = input_data["question"]
    /\ pc' = "extract"
    /\ UNCHANGED <<api, question, chat_history, vector_index, input_data,
                   entities, idx, result, unstructured_data, final_data,
                   prompt, returned, status, calls, ftq_in, ftq_out, otherVars>>

\* _search_query, first branch: format history | prompt | llm | StrOutputParser
search_query_condense ==
    /\ pc = "search_query"
    /\ HasChatHistoryCheck(input_data)
    /\ LET in == condense_input(input_data)
       IN  IF in.ok
           THEN \E outcome \in {Ok(t) : t \in StandaloneQuestions} \cup LlmFailures :
                   /\ calls' = Append(calls, Call("condense", in.val,
                                                  outcome.ok, outcome.val))
                   /\ LET r == condense_step(input_data, outcome)
                      IN  IF r.ok
                          THEN /\ search_question' = r.val
                               /\ pc' = "extract"
                               /\ UNCHANGED <<returned, status>>
                          ELSE /\ Finish(r)
                               /\ UNCHANGED search_question
           ELSE /\ Finish(in)
                /\ UNCHANGED <<search_question, calls>>
    /\ UNCHANGED <<api, question, chat_history, vector_index, input_data,
                   entities, idx, result, unstructured_data, final_data,
                   prompt, ftq_in, ftq_out, otherVars>>

\* structured_retriever: result = ""; entities = extract_entities(question)
structured_retriever_extract ==
    /\ pc = "extract"
    /\ \E outcome \in {Ok(names) : names \in ExtractorOutputs} \cup ServiceFailures :
          LET r == extract_entities(outcome)
          IN  /\ calls' = Append(calls, Call("extract", search_question,
                                             outcome.ok, outcome.val))
              /\ IF r.ok
                 THEN /\ entities' = r.val
                      /\ idx' = 1
                      /\ result' = <<>>
                      /\ pc' = "graph"
                      /\ UNCHANGED <<returned, status>>
                 ELSE /\ Finish(r)
                      /\ UNCHANGED <<entities, idx, result>>
    /\ UNCHANGED <<api, question, chat_history, vector_index, input_data,
                   search_question, unstructured_data, final_data, prompt,
                   ftq_in, ftq_out, otherVars>>

\* structured_retriever, loop turn on a blank entity: continue
structured_retriever_skip ==
    /\ pc = "graph"
    /\ idx <= Len(entities)
    /\ entity_skipped(entities[idx])
    /\ idx' = idx + 1
    /\ UNCHANGED <<api, pc, question, chat_history, vector_index, input_data,
                   search_question, entities, result, unstructured_data,
                   final_data, prompt, returned, status, calls, ftq_in, ftq_out, otherVars>>

\* structured_retriever, loop turn that queries the graph store
structured_retriever_query ==
    /\ pc = "graph"
    /\ idx <= Len(entities)
    /\ ~entity_skipped(entities[idx])
    /\ \E outcome \in {Ok(rows) : rows \in GraphResponses} \cup ServiceFailures :
          LET r == structured_step(result, outcome)
              c == [svc |-> "graph",
                    arg |-> generate_full_text_query(entities[idx]),
                    ok |-> outcome.ok, val |-> outcome.val]
          IN  /\ calls' = Append(calls, c)
              /\ IF r.ok
                 THEN /\ result' = r.val
                      /\ idx' = idx + 1
                      /\ UNCHANGED <<pc, returned, status>>
                 ELSE /\ Finish(r)
                      /\ UNCHANGED <<result, idx>>
    /\ UNCHANGED <<api, question, chat_history, vector_index, input_data,
                   search_question, entities, unstructured_data, final_data,
                   prompt, ftq_in, ftq_out, otherVars>>

\* rest of retriever once the loop is over: vector search, combine, return
RetrieverRest(outcome, called) ==
    LET r == similarity_step(outcome)
    IN  /\ calls' = (IF called
                     THEN Append(calls, Call("vector", search_question,
                                             outcome.ok, outcome.val))
                     ELSE calls)
        /\ IF r.ok
           THEN /\ unstructured_data' = r.val
                /\ final_data' = combine(result, r.val)
                /\ IF api = "get_context"
                   THEN Finish(Ok(final_data'))
                   ELSE /\ pc' = "qa"
                        /\ UNCHANGED <<returned, status>>
           ELSE /\ Finish(r)
                /\ UNCHANGED <<unstructured_data, final_data>>

\* retriever with a vector index: similarity_search(question)
retriever_similarity_search ==
    /\ pc = "graph"
    /\ idx > Len(entities)
    /\ vector_index
    /\ \E outcome \in {Ok(docs) : docs \in VectorResponses} \cup ServiceFailures :
          RetrieverRest(outcome, TRUE)
    /\ UNCHANGED <<api, question, chat_history, vector_index, input_data,
                   search_question, entities, idx, result, prompt,
                   ftq_in, ftq_out, otherVars>>

\* retriever without a vector index: unstructured_data stays []
retriever_no_index ==
    /\ pc = "graph"
    /\ idx > Len(entities)
    /\ ~vector_index
    /\ RetrieverRest(Ok(<<>>), FALSE)
    /\ UNCHANGED <<api, question, chat_history, vector_index, input_data,
                   search_question, entities, idx, result, prompt,
                   ftq_in, ftq_out, otherVars>>

chain_answer_retry ==
    /\ pc = "qa"
    /\ prompt' = qa_prompt_input(input_data, final_data)
    /\ \E outcome \in {Ok(t) : t \in AnswerTexts} \cup LlmFailures :
          /\ calls' = Append(calls, Call("final", prompt', outcome.ok, outcome.val))
          /\ IF outcome.ok THEN Finish(outcome)
             ELSE UNCHANGED <<pc, returned, status>>
    /\ UNCHANGED <<api, question, chat_history, vector_index, input_data,
                   search_question, entities, idx, result, unstructured_data,
                   final_data, ftq_in, ftq_out, otherVars>>

\* qa_prompt | llm | StrOutputParser, and the return of answer_question
chain_answer ==
    /\ pc = "qa"
    /\ prompt' = qa_prompt_input(input_data, final_data)
    /\ \E outcome \in {Ok(t) : t \in AnswerTexts} \cup LlmFailures :
          /\ calls' = Append(calls, Call("final", prompt', outcome.ok, outcome.val))
          /\ Finish(outcome)
    /\ UNCHANGED <<api, question, chat_history, vector_index, input_data,
                   search_question, entities, idx, result, unstructured_data,
                   final_data, ftq_in, ftq_out, otherVars>>

Next ==
    \/ \E q \in Questions, h \in ChatHistories : answer_question(q, h)
    \/ \E q \in Questions : get_context(q)
    \/ search_query_passthrough
    \/ search_query_condense
    \/ structured_retriever_extract
    \/ structured_retriever_skip
    \/ structured_retriever_query
    \/ retriever_similarity_search
    \/ retriever_no_index
    \/ chain_answer

Spec == Init /\ [][Next]_vars

(***************************************************************************)
(* generate_full_text_query called on its own, on any short text           *)
(***************************************************************************)
InitQuery ==
    /\ IdleChain
    /\ vector_index = FALSE
    /\ ftq_in \in SeqsUpTo(Alphabet, MaxLen)
    /\ ftq_out = NoValue
    /\ IdleOthers

call_generate_full_text_query ==
    /\ ftq_out = NoValue
    /\ ftq_out' = generate_full_text_query(ftq_in)
    /\ UNCHANGED <<chainVars, ftq_in, otherVars>>

NextQuery == call_generate_full_text_query

SpecQuery == InitQuery /\ [][NextQuery]_vars

(***************************************************************************)
(* Properties                                                              *)
(***************************************************************************)
Done == pc = "done"

CallsOf(svc) == SelectSeq(calls, LAMBDA c : c.svc = svc)

Made(svc) == \E k \in 1..Len(calls) : calls[k].svc = svc

\* s occurs in t starting at position p
OccursAt(s, t, p) ==
    /\ p >= 1
    /\ p + Len(s) - 1 <= Len(t)
    /\ SubSeq(t, p, p + Len(s) - 1) = s

(* ---- C1 ---- *)
\* C1: answer_question never raises; when the condense call or the final
\* language-model call raises with message m, it returns exactly
\* "Error generating answer: " followed by m, and failures of the extractor,
\* of the graph store and of the vector index do not end the call.
C1_AnswerQuestionNeverRaises ==
    api = "answer_question" =>
        /\ status # "raised"
        /\ Done =>
              /\ status = "returned"
              /\ \A k \in 1..Len(calls) :
                    (calls[k].svc \in {"condense", "final"} /\ ~calls[k].ok)
                        => returned = <<"Error generating answer: ">> \o calls[k].val
              /\ (\A k \in 1..Len(calls) :
                     calls[k].svc \in {"condense", "final"} => calls[k].ok)
                    => (Made("final") /\ returned \in AnswerTexts)

C1_Witness ==
    /\ api = "answer_question"
    /\ Done
    /\ calls # <<>>
    /\ calls[Len(calls)] = Call("final", prompt, FALSE, <<"timeout">>)
    /\ returned = <<"Error generating answer: ", "timeout">>

(* ---- C4 ---- *)
IsWordChar(c) == c \notin (Whitespace \cup LuceneSpecialChars)

\* the tokens of a text: its maximal runs of word characters, left to right
TokenStarts(s) ==
    {p \in 1..Len(s) : IsWordChar(s[p]) /\ (p = 1 \/ ~IsWordChar(s[p - 1]))}

TokenEnd(s, p) ==
    CHOOSE e \in p..Len(s) :
        /\ \A k \in p..e : IsWordChar(s[k])
        /\ (e = Len(s) \/ ~IsWordChar(s[e + 1]))

RECURSIVE TokensFrom(_, _)
TokensFrom(s, starts) ==
    IF starts = {} THEN <<>>
    ELSE LET p == CHOOSE x \in starts : \A y \in starts : x <= y
         IN  <<SubSeq(s, p, TokenEnd(s, p))>> \o TokensFrom(s, starts \ {p})

Tokens(s) == TokensFrom(s, TokenStarts(s))

\* "t1~2 AND t2~2 AND ... AND tn~2", position by position
RECURSIVE FuzzyAnd(_)
FuzzyAnd(ts) ==
    IF ts = <<>> THEN <<>>
    ELSE IF Len(ts) = 1 THEN ts[1] \o <<"~", "2">>
    ELSE ts[1] \o <<"~", "2", " ", "A", "N", "D", " ">> \o FuzzyAnd(Tail(ts))

\* C4: generate_full_text_query returns, for a text with tokens t1..tn,
\* exactly "t1~2 AND ... AND tn~2" without surrounding blanks or trailing
\* AND, and the empty string for a text with no token.
C4_FullTextQueryShape ==
    ftq_out # NoValue =>
        /\ ftq_out = FuzzyAnd(Tokens(ftq_in))
        /\ (Tokens(ftq_in) = <<>> => ftq_out = <<>>)

C4_Witness ==
    /\ ftq_out # NoValue
    /\ Len(Tokens(ftq_in)) = 3
    /\ ftq_out = <<"a", "~", "2", " ", "A", "N", "D", " ",
                   "b", "~", "2", " ", "A", "N", "D", " ", "a", "~", "2">>

(* ---- C2 ---- *)
\* C2: retriever / get_context always returns a context string and never
\* raises, whatever fails among the extractor, the graph queries and the
\* vector search; a failed part contributes nothing and both sections are
\* still there.
C2_RetrieverAlwaysReturns ==
    /\ api = "get_context" => status # "raised"
    /\ (Done /\ Made("extract")) =>
          /\ final_data # NoValue
          /\ OccursAt(<<"Structured data:", "\n">>, final_data, 1)
          /\ \E p \in 1..Len(final_data) :
                OccursAt(<<"Unstructured data:", "\n">>, final_data, p)
          /\ api = "get_context" => (status = "returned" /\ returned = final_data)
          /\ (\E k \in 1..Len(calls) : calls[k].svc = "extract" /\ ~calls[k].ok)
                => OccursAt(<<"Structured data:", "\n", "\n", "\n">>, final_data, 1)
          /\ (\E k \in 1..Len(calls) : calls[k].svc = "vector" /\ ~calls[k].ok)
                => final_data[Len(final_data) - 1] = "Unstructured data:"

C2_Witness ==
    /\ api = "get_context"
    /\ Done
    /\ status = "returned"
    /\ \E j, k \in 1..Len(calls) :
          /\ calls[j].svc = "graph" /\ ~calls[j].ok
          /\ calls[k].svc = "vector" /\ ~calls[k].ok
    /\ returned = <<"Structured data:", "\n", "\n", "\n", "Unstructured data:", "\n">>

(* ---- C3 ---- *)
NonBlank(es) == SelectSeq(es, LAMBDA e : strip(e) # <<>>)

\* the rows of the successful queries, each query's rows newline-joined, in
\* the order of the queries
RECURSIVE RowsOfSucceeded(_)
RowsOfSucceeded(gs) ==
    IF gs = <<>> THEN <<>>
    ELSE (IF Head(gs).ok THEN join(<<"\n">>, Head(gs).val) ELSE <<>>)
             \o RowsOfSucceeded(Tail(gs))

\* C3: a failing graph query ends neither structured_retriever nor its loop:
\* every non-blank entity is queried, in order, also after a failure, and
\* the result holds the rows of the successful queries and nothing else.
C3_PerEntityIsolation ==
    LET g == CallsOf("graph")
        queried == NonBlank(SubSeq(entities, 1, idx - 1))
    IN  /\ Len(g) = Len(queried)
        /\ \A k \in 1..Len(g) : g[k].arg = generate_full_text_query(queried[k])
        /\ result = RowsOfSucceeded(g)
        /\ (\E k \in 1..Len(g) : ~g[k].ok) => status # "raised"
        /\ (Made("extract") /\ pc \in {"qa", "done"}) => idx = Len(entities) + 1

C3_Witness ==
    LET g == CallsOf("graph")
    IN  /\ Done
        /\ entities = << <<"A">>, <<"B">> >>
        /\ Len(g) = 2
        /\ ~g[1].ok
        /\ g[2].ok /\ g[2].val = <<Row1, Row2>>
        /\ result = Row1 \o <<"\n">> \o Row2

(* ---- C5 ---- *)
\* C5: with an empty chat history, answer_question makes no condense call,
\* and the question searched (given to the entity extractor and to the
\* vector search) is the original question unchanged.
C5_NoHistoryBranch ==
    (api = "answer_question" /\ chat_history = <<>>) =>
        /\ ~Made("condense")
        /\ pc \notin {"idle", "search_query"} => search_question = question
        /\ \A k \in 1..Len(calls) :
              calls[k].svc \in {"extract", "vector"} => calls[k].arg = question

C5_Witness ==
    /\ api = "answer_question"
    /\ chat_history = <<>>
    /\ Done
    /\ Made("extract") /\ Made("vector") /\ Made("final")
    /\ search_question = <<"Who founded Acme?">>

(* ---- C6 ---- *)
\* the messages of a history: human then assistant for each turn, in order
IsAlternating(msgs, h) ==
    /\ Len(msgs) = 2 * Len(h)
    /\ \A k \in 1..Len(h) :
          /\ msgs[2 * k - 1] = [type |-> "human", content |-> h[k][1]]
          /\ msgs[2 * k] = [type |-> "ai", content |-> h[k][2]]

\* C6: with a non-empty chat history, answer_question makes exactly one
\* condense call, on the history as alternating human/assistant messages in
\* the given order and the follow-up question; the text that call returns is
\* the question given to the entity extractor and to the vector search.
C6_HasHistoryBranch ==
    (api = "answer_question" /\ chat_history # <<>>
        /\ pc \notin {"idle", "search_query"}) =>
        LET c == CallsOf("condense")
        IN  /\ Len(c) = 1
            /\ calls[1] = c[1]
            /\ IsAlternating(c[1].arg.chat_history, chat_history)
            /\ c[1].arg.question = question
            /\ c[1].ok =>
                  /\ search_question = c[1].val
                  /\ \A k \in 2..Len(calls) :
                        calls[k].svc \in {"extract", "vector"}
                            => calls[k].arg = c[1].val
            /\ ~c[1].ok => Len(calls) = 1

C6_Witness ==
    /\ api = "answer_question"
    /\ Len(chat_history) = 2
    /\ chat_history[1] # chat_history[2]
    /\ Done
    /\ Len(CallsOf("condense")) = 1
    /\ \E k \in 1..Len(calls) :
          calls[k].svc = "vector" /\ calls[k].arg = <<"Where is Acme based?">>
    /\ question # <<"Where is Acme based?">>

(* ---- C7 ---- *)
\* C7: the combined context holds "Structured data:\n" + S and, after it,
\* "Unstructured data:\n" + the passages joined by "#Document ", for the
\* structured string S and the passages of the call.
C7_ContextLayout ==
    final_data # NoValue =>
        LET S == <<"Structured data:", "\n">> \o result
            U == <<"Unstructured data:", "\n">>
                     \o join(<<"#Document ">>, unstructured_data)
        IN  \E p \in 1..Len(final_data) :
                /\ OccursAt(S, final_data, p)
                /\ \E q \in (p + 1)..Len(final_data) :
                       /\ OccursAt(U, final_data, q)
                       /\ q + Len(U) - 1 = Len(final_data)

C7_Witness ==
    /\ result = Row1
    /\ unstructured_data = <<Passage1, Passage2>>
    /\ final_data = <<"Structured data:", "\n",
                      "Acme - FOUNDED_BY -> Jane Doe", "\n", "\n",
                      "Unstructured data:", "\n",
                      "Acme was founded in 1990.", "#Document ",
                      "Jane Doe lives in Paris.">>

(* ---- C8 ---- *)
\* C8: the final prompt gets the search question (the standalone question
\* with a chat history, else the original question) as its question and the
\* retriever's context of the same call as its context.
C8_PromptGetsSearchQuestion ==
    Made("final") =>
        /\ prompt.question = search_question
        /\ prompt.context = final_data

(* ---- C9 ---- *)
IsRow(a) == <<a>> \in {Row1, Row2}

\* C9: in the structured retriever's result every row is on a line of its
\* own, also where one entity's rows end and the next entity's rows begin.
C9_RowsNewlineJoined ==
    \A k \in 1..(Len(result) - 1) :
        IsRow(result[k]) => result[k + 1] = "\n"

(* ---- C10 ---- *)
\* C10: one structured_retriever call queries the graph store at most once
\* for each distinct (trimmed, non-empty) entity name.
C10_OneQueryPerDistinctEntity ==
    Len(CallsOf("graph"))
        <= Cardinality({strip(entities[k]) : k \in 1..Len(entities)} \ {<<>>})

(* ================= extract_and_clean_entities ================= *)
MaxNames == 4

\* names as the extraction chain can return them: bare, with surrounding
\* whitespace, in another case, blank and empty
RawNames == {<<"A">>, <<" ", "A">>, <<"A", "\t">>, <<"a">>, <<"B">>,
             <<" ">>, <<>>}

RawExtractorOutputs == SeqsUpTo(RawNames, MaxNames)

Range(s) == {s[k] : k \in DOMAIN s}

\* list(S): a Python set is iterated in hash order, any order can come out
list_of_set(S) ==
    {l \in [1..Cardinality(S) -> S] : \A x \in S : \E k \in DOMAIN l : l[k] = x}

\* [entity.strip() for entity in entities if entity.strip()]
stripped_nonblank_raw(names) ==
    SelectSeq(names, LAMBDA entity : strip(entity) # <<>>)

stripped_nonblank(names) ==
    LET kept == SelectSeq(names, LAMBDA entity : strip(entity) # <<>>)
    IN  [k \in 1..Len(kept) |-> strip(kept[k])]

\* the lists extract_and_clean_entities can return
extract_and_clean_entities(outcome) ==
    list_of_set(Range(stripped_nonblank(extract_entities(outcome).val)))

InitClean ==
    /\ IdleRetrieval
    /\ IdleWiki
    /\ IdlePipeline
    /\ IdleSession
    /\ IdleExtra
    /\ llm_out \in {Ok(names) : names \in RawExtractorOutputs} \cup LlmFailures
    /\ cleaned = NoValue

call_extract_and_clean_entities ==
    /\ cleaned = NoValue
    /\ cleaned' \in extract_and_clean_entities(llm_out)
    /\ UNCHANGED <<chainVars, ftq_in, ftq_out, llm_out, wikiVars, pipeVars,
                   sessionVars, extraVars>>

NextClean == call_extract_and_clean_entities

SpecClean == InitClean /\ [][NextClean]_vars

(* ---- C11 ---- *)
\* C11: the list extract_and_clean_entities returns holds, once each, exactly
\* the trimmed names of the extractor output's entries that are not empty or
\* whitespace-only (compared exactly, case kept): no blank member, no
\* duplicate, nothing added, nothing lost; a failed extraction gives none.
C11_CleanedIsDistinctTrimmedSet ==
    cleaned # NoValue =>
        LET names == IF llm_out.ok THEN llm_out.val ELSE <<>>
        IN  /\ \A i \in DOMAIN cleaned :
                /\ cleaned[i] # <<>>
                /\ Head(cleaned[i]) \notin Whitespace
                /\ cleaned[i][Len(cleaned[i])] \notin Whitespace
                /\ \E k \in DOMAIN names : strip(names[k]) = cleaned[i]
                /\ \A j \in DOMAIN cleaned : cleaned[j] = cleaned[i] => j = i
            /\ \A k \in DOMAIN names :
                strip(names[k]) # <<>> =>
                    \E i \in DOMAIN cleaned : cleaned[i] = strip(names[k])

\* ["Acme", " ", "Acme", "Bob"] gives Acme and Bob
C11_Witness ==
    /\ llm_out = Ok(<<<<"A">>, <<" ">>, <<"A">>, <<"B">>>>)
    /\ Range(cleaned) = {<<"A">>, <<"B">>}
    /\ Len(cleaned) = 2

(* ---- C12 ---- *)
ExtractionFailed ==
    \E k \in 1..Len(calls) : calls[k].svc = "extract" /\ ~calls[k].ok

\* C12: when the extraction call fails, extract_entities gives the empty list
\* and raises nothing: structured_retriever sends no graph query and returns
\* the empty string, and the call goes on to the vector search (with an
\* index), to the combined context and, under answer_question, to the final
\* answer call.
C12_ExtractionFailureDegrades ==
    ExtractionFailed =>
        /\ entities = <<>>
        /\ result = <<>>
        /\ ~Made("graph")
        /\ pc \in {"graph", "qa", "done"}
        /\ pc \in {"qa", "done"} =>
               /\ vector_index => Made("vector")
               /\ final_data # NoValue
        /\ pc = "done" =>
               IF api = "answer_question" THEN Made("final")
               ELSE status = "returned" /\ returned = final_data

C12_Witness ==
    /\ ExtractionFailed
    /\ Done
    /\ api = "answer_question"
    /\ Len(calls) = 3
    /\ calls[2].svc = "vector" /\ calls[2].ok
    /\ calls[3].svc = "final" /\ calls[3].ok
    /\ returned = calls[3].val

(* ---- C13 ---- *)
VectorSearchFailed ==
    \E k \in 1..Len(calls) : calls[k].svc = "vector" /\ ~calls[k].ok

\* C13: when the similarity search raises, or no vector index is set, the
\* retriever still returns its context: the unstructured section is empty and
\* the structured section is the string structured_retriever returned, made
\* of the rows of the graph queries that succeeded.
C13_VectorFailureDegrades ==
    (\/ VectorSearchFailed
     \/ ~vector_index /\ Made("extract") /\ pc \in {"qa", "done"}) =>
        /\ pc \in {"qa", "done"}
        /\ unstructured_data = <<>>
        /\ result = RowsOfSucceeded(CallsOf("graph"))
        /\ final_data = <<"Structured data:", "\n">> \o result
                            \o <<"\n", "\n", "Unstructured data:", "\n">>
        /\ (pc = "done" /\ api = "get_context") =>
               status = "returned" /\ returned = final_data

C13_Witness ==
    /\ VectorSearchFailed
    /\ result = Row1 \o <<"\n">> \o Row2
    /\ final_data = <<"Structured data:", "\n">> \o Row1 \o <<"\n">> \o Row2
                        \o <<"\n", "\n", "Unstructured data:", "\n">>
    /\ Done
    /\ status = "returned"

(* ---- C14 ---- *)
CondenseFailed ==
    calls # <<>> /\ calls[1].svc = "condense" /\ ~calls[1].ok

\* C14: when the condense call raises with message m, answer_question returns
\* "Error generating answer: " + m and that call was the only one: no
\* extraction, no graph query, no vector search, no final answer call.
C14_CondenseFailureSurfaces ==
    CondenseFailed =>
        /\ Len(calls) = 1
        /\ chat_history # <<>>
        /\ Done
        /\ status = "returned"
        /\ returned = <<"Error generating answer: ">> \o calls[1].val

C14_Witness ==
    /\ CondenseFailed
    /\ Done
    /\ returned = <<"Error generating answer: ", "timeout">>

(* ================= DocumentLoader.load_from_wikipedia ================= *)
MaxLoaded == 3

WikiPages == {"page1", "page2", "page3"}

\* what loader.load() gives: the pages found, in loader order
LoadedDocuments == SeqsUpTo(WikiPages, MaxLoaded)

\* max_docs is an int: counts, and values below zero
MaxDocsArgs == (0 - 2)..(MaxLoaded + 1)

slice_to_inclusive(documents, stop) ==
    SubSeq(documents, 1,
           IF stop >= 0
           THEN (IF stop + 1 < Len(documents) THEN stop + 1 ELSE Len(documents))
           ELSE (IF Len(documents) + stop > 0 THEN Len(documents) + stop ELSE 0))

\* documents[:stop]: a stop below zero counts from the end
slice_to(documents, stop) ==
    SubSeq(documents, 1,
           IF stop >= 0
           THEN (IF stop < Len(documents) THEN stop ELSE Len(documents))
           ELSE (IF Len(documents) + stop > 0 THEN Len(documents) + stop ELSE 0))

\* try: loader.load(); return documents[:max_docs]  except: return []
load_from_wikipedia(outcome, n) ==
    IF outcome.ok THEN Ok(slice_to(outcome.val, n)) ELSE Ok(<<>>)

InitWiki ==
    /\ IdleRetrieval
    /\ IdleClean
    /\ IdlePipeline
    /\ IdleSession
    /\ IdleExtra
    /\ loader_out \in {Ok(docs) : docs \in LoadedDocuments} \cup ServiceFailures
    /\ max_docs \in MaxDocsArgs
    /\ sliced_docs = Pending

call_load_from_wikipedia ==
    /\ sliced_docs = Pending
    /\ sliced_docs' = load_from_wikipedia(loader_out, max_docs)
    /\ UNCHANGED <<chainVars, ftq_in, ftq_out, cleanVars, loader_out, max_docs,
                   pipeVars, sessionVars, extraVars>>

NextWiki == call_load_from_wikipedia

SpecWiki == InitWiki /\ [][NextWiki]_vars

(* ---- C16 ---- *)
IsPrefix(s, t) == Len(s) <= Len(t) /\ SubSeq(t, 1, Len(s)) = s

\* C16 as stated: for every max_docs, load_from_wikipedia returns at most
\* max_docs documents, a prefix of the loader's documents, and the empty list
\* when the loader fails.
C16_AtMostMaxDocs ==
    sliced_docs # Pending =>
        /\ sliced_docs.ok
        /\ Len(sliced_docs.val) <= max_docs
        /\ IF loader_out.ok THEN IsPrefix(sliced_docs.val, loader_out.val)
           ELSE sliced_docs.val = <<>>

\* C16: load_from_wikipedia never raises; it returns a prefix, in loader
\* order, of the loader's documents, of at most max_docs documents when
\* max_docs is not negative, and the empty list when the loader fails.
C16_PrefixAtMostMaxDocs ==
    sliced_docs # Pending =>
        /\ sliced_docs.ok
        /\ max_docs >= 0 => Len(sliced_docs.val) <= max_docs
        /\ IF loader_out.ok THEN IsPrefix(sliced_docs.val, loader_out.val)
           ELSE sliced_docs.val = <<>>

C16_Witness ==
    /\ loader_out = Ok(<<"page2", "page1", "page3">>)
    /\ max_docs = 2
    /\ sliced_docs = Ok(<<"page2", "page1">>)

(* ---- C17 ---- *)
\* C17: for every entity that structured_retriever does not skip (every
\* entity that is not empty or whitespace-only) generate_full_text_query
\* gives a non-empty query, also for an entity made only of full-text
\* special characters.
C17_QueryNonEmptyUnlessSkipped ==
    (ftq_out # NoValue /\ ~entity_skipped(ftq_in)) => ftq_out # <<>>

(* ---- C18 ---- *)
\* the rows of the successful queries, one after the other
RECURSIVE RowsInCallOrder(_)
RowsInCallOrder(gs) ==
    IF gs = <<>> THEN <<>>
    ELSE (IF Head(gs).ok
          THEN [k \in 1..Len(Head(gs).val) |-> Head(gs).val[k][1]]
          ELSE <<>>)
             \o RowsInCallOrder(Tail(gs))

\* C18: the rows in structured_retriever's result are the rows the graph
\* store returned, entity after entity in extraction order and, for one
\* entity, in the order returned: none moved, dropped, repeated or added.
C18_RowOrder ==
    LET g == CallsOf("graph")
        queried == NonBlank(SubSeq(entities, 1, idx - 1))
    IN  /\ Len(g) = Len(queried)
        /\ \A k \in 1..Len(g) : g[k].arg = generate_full_text_query(queried[k])
        /\ SelectSeq(result, IsRow) = RowsInCallOrder(g)
        /\ \A k \in 1..Len(result) : IsRow(result[k]) \/ result[k] = "\n"

C18_Witness ==
    LET g == CallsOf("graph")
    IN  /\ entities = << <<"A">>, <<"B">> >>
        /\ Len(g) = 2
        /\ g[1].ok /\ g[1].val = <<Row1, Row2>>
        /\ g[2].ok /\ g[2].val = <<Row1>>
        /\ SelectSeq(result, IsRow) = Row1 \o Row2 \o Row1

(* ---- C19 ---- *)
\* C19: in one invocation the external calls come in stage order: a condense
\* call is the first call, the extraction call has only a condense call
\* before it, every graph query and the vector search come after the
\* extraction call, and the final answer call is the last call, made once,
\* after the retriever has returned its context.
C19_StageOrdering ==
    \A k \in 1..Len(calls) :
        /\ calls[k].svc = "condense" => k = 1
        /\ calls[k].svc = "extract" =>
               \A j \in 1..(k - 1) : calls[j].svc = "condense"
        /\ calls[k].svc \in {"graph", "vector"} =>
               \E j \in 1..(k - 1) : calls[j].svc = "extract"
        /\ calls[k].svc = "final" =>
               /\ k = Len(calls)
               /\ idx > Len(entities)
               /\ final_data # NoValue
               /\ Done

C19_Witness ==
    /\ Len(calls) = 6
    /\ calls[1].svc = "condense"
    /\ calls[2].svc = "extract"
    /\ calls[3].svc = "graph"
    /\ calls[4].svc = "graph"
    /\ calls[5].svc = "vector"
    /\ calls[6].svc = "final"

(* ================= GraphRAGPipeline ================= *)
MaxCalls == 3

\* the steps of process_documents, in the order of the code
StageOrder == <<"clear_graph", "load_and_split", "create_knowledge_graph",
                "setup_vector_index", "RetrievalSystem", "get_graph_stats">>

\* load_and_split catches every exception and returns []; the others raise
RaisingStages == {"clear_graph", "create_knowledge_graph",
                  "setup_vector_index", "RetrievalSystem", "get_graph_stats"}

Position(stage) == CHOOSE k \in 1..Len(StageOrder) : StageOrder[k] = stage

\* the step was run to its end by a call in which `fail` raised
Completed(stage, fail) == fail = "none" \/ Position(stage) < Position(fail)

GraphStats == [nodes |-> 3, relationships |-> 2]

\* GraphRAGPipeline.__init__: retrieval_system = None; a new GraphManager has
\* vector_index = None.  0 stands for None, k for the object made by the
\* k-th process_documents call.
NewPipeline == [kind |-> "GraphRAGPipeline", retrieval_system |-> 0,
                vector_index |-> 0]

process_documents_early(p, fail, n) ==
    [pipeline |->
        [p EXCEPT !.vector_index =
                      IF Completed("setup_vector_index", fail) THEN n ELSE @,
                  !.retrieval_system =
                      IF Completed("create_knowledge_graph", fail) THEN n ELSE @],
     outcome |-> IF fail = "none" THEN Ok(GraphStats) ELSE Err(<<fail>>)]

\* the n-th process_documents call, in which `fail` raises ("none": nothing)
process_documents(p, fail, n) ==
    [pipeline |->
        [p EXCEPT !.vector_index =
                      IF Completed("setup_vector_index", fail) THEN n ELSE @,
                  !.retrieval_system =
                      IF Completed("RetrievalSystem", fail) THEN n ELSE @],
     outcome |-> IF fail = "none" THEN Ok(GraphStats) ELSE Err(<<fail>>)]

NoDocumentsMessage ==
    <<"No documents have been processed yet. Please process documents first.">>

\* what answer_question returns: an answer or its own error text
PipelineAnswers ==
    AnswerTexts \cup {<<"Error generating answer: ">> \o m : m \in Messages}

\* GraphRAGPipeline.ask_question: RuntimeError without a retrieval system,
\* else what retrieval_system.answer_question returns
ask_question(p, answer) ==
    IF p.retrieval_system = 0
    THEN [outcome |-> Err(NoDocumentsMessage), called |-> FALSE]
    ELSE [outcome |-> Ok(answer), called |-> TRUE]

InitPipeline ==
    /\ IdleRetrieval
    /\ IdleClean
    /\ IdleWiki
    /\ IdleSession
    /\ IdleExtra
    /\ pipeline = NewPipeline
    /\ n_calls = 0
    /\ runs = <<>>
    /\ last_op = NoOp

pipeline_process_documents(clear_existing, fail) ==
    /\ n_calls < MaxCalls
    /\ fail = "clear_graph" => clear_existing
    /\ LET r == process_documents(pipeline, fail, n_calls + 1)
       IN  /\ pipeline' = r.pipeline
           /\ last_op' = [op |-> "process_documents", outcome |-> r.outcome,
                          before |-> pipeline.retrieval_system]
    /\ n_calls' = n_calls + 1
    /\ runs' = Append(runs, fail)
    /\ UNCHANGED <<chainVars, ftq_in, ftq_out, cleanVars, wikiVars, extraVars, sessionVars>>

pipeline_ask_question ==
    /\ \E answer \in PipelineAnswers :
          LET r == ask_question(pipeline, answer)
          IN  last_op' = [op |-> "ask_question", outcome |-> r.outcome,
                          called |-> r.called]
    /\ UNCHANGED <<chainVars, ftq_in, ftq_out, cleanVars, wikiVars, extraVars, sessionVars,
                   pipeline, n_calls, runs>>

NextPipeline ==
    \/ \E clear_existing \in BOOLEAN, fail \in RaisingStages \cup {"none"} :
          pipeline_process_documents(clear_existing, fail)
    \/ pipeline_ask_question

SpecPipeline == InitPipeline /\ [][NextPipeline]_vars

(* ---- C20 ---- *)
\* some process_documents call so far got as far as creating the retrieval
\* system: graph creation and vector-index setup succeeded in it
ReachedRetrievalSystem ==
    \E k \in 1..Len(runs) : runs[k] \in {"get_graph_stats", "none"}

\* C20: ask_question raises RuntimeError, and does not call the retrieval
\* system, exactly when no process_documents call so far got as far as
\* creating the retrieval system; otherwise it calls the retrieval system and
\* returns its answer.  A process_documents call that raises before that
\* point leaves retrieval_system as it was.
C20_PipelineLifecycle ==
    /\ last_op.op = "ask_question" =>
           IF ReachedRetrievalSystem
           THEN last_op.outcome.ok /\ last_op.called
           ELSE last_op.outcome = Err(NoDocumentsMessage) /\ ~last_op.called
    /\ (last_op.op = "process_documents"
            /\ runs[Len(runs)] \in {"clear_graph", "create_knowledge_graph",
                                    "setup_vector_index", "RetrievalSystem"}) =>
           pipeline.retrieval_system = last_op.before

C20_Witness ==
    /\ runs = <<"create_knowledge_graph", "get_graph_stats", "setup_vector_index">>
    /\ pipeline.retrieval_system = 2
    /\ last_op.op = "ask_question"
    /\ last_op.outcome.ok

(* ================= The Streamlit session ================= *)
MaxTurns == 7

\* chat_history[-5:]
HistoryWindow == 5

history_window_oldest(h) ==
    LET kept == SubSeq(h, 1, IF Len(h) < HistoryWindow THEN Len(h)
                             ELSE HistoryWindow)
    IN  [k \in 1..Len(kept) |-> <<kept[k][1], kept[k][2]>>]

\* [(q, a) for q, a in st.session_state.chat_history[-5:]]
history_window(h) ==
    LET kept == SubSeq(h, IF Len(h) > HistoryWindow
                          THEN Len(h) - HistoryWindow + 1 ELSE 1, Len(h))
    IN  [k \in 1..Len(kept) |-> <<kept[k][1], kept[k][2]>>]

InitSession ==
    /\ IdleRetrieval
    /\ IdleClean
    /\ IdleWiki
    /\ IdlePipeline
    /\ IdleSession
    /\ IdleExtra

\* Initialize System: a new pipeline when the configuration is valid and the
\* constructor does not raise; an error message otherwise
initialize_system(valid, constructed) ==
    /\ pipeline' = (IF valid /\ constructed THEN NewPipeline ELSE pipeline)
    /\ last_op' = [op |-> "initialize_system", ok |-> valid /\ constructed]
    /\ UNCHANGED <<chainVars, ftq_in, ftq_out, cleanVars, wikiVars, extraVars, sessionVars,
                   n_calls, runs>>

\* Process PDF / Process Wikipedia: process_document
process_document(clear_existing, fail) ==
    /\ pipeline # None
    /\ n_calls < MaxCalls
    /\ fail = "clear_graph" => clear_existing
    /\ LET r == process_documents(pipeline, fail, n_calls + 1)
       IN  /\ pipeline' = r.pipeline
           /\ last_op' = [op |-> "process_document", outcome |-> r.outcome]
           /\ IF r.outcome.ok
              THEN /\ documents_processed' = TRUE
                   /\ graph_stats' = r.outcome.val
              ELSE UNCHANGED <<documents_processed, graph_stats>>
    /\ n_calls' = n_calls + 1
    /\ UNCHANGED <<chainVars, ftq_in, ftq_out, cleanVars, wikiVars, extraVars,
                   session_chat_history, runs>>

\* Ask Question: ask_question(question) of the UI
ui_ask_question(q) ==
    /\ pipeline # None
    /\ documents_processed
    /\ Len(session_chat_history) < MaxTurns
    /\ \E answer \in AnswerTexts :
          LET window == history_window(session_chat_history)
              r == ask_question(pipeline, answer)
          IN  /\ last_op' = [op |-> "ui_ask_question", question |-> q,
                             handed |-> window, outcome |-> r.outcome,
                             before |-> session_chat_history]
              /\ session_chat_history' =
                     (IF r.outcome.ok
                      THEN Append(session_chat_history, <<q, r.outcome.val>>)
                      ELSE session_chat_history)
    /\ UNCHANGED <<chainVars, ftq_in, ftq_out, cleanVars, wikiVars, extraVars, pipeline,
                   n_calls, runs, documents_processed, graph_stats>>

\* Show Context: pipeline.retrieval_system.get_context(question)
show_context ==
    /\ pipeline # None
    /\ documents_processed
    /\ last_op' = [op |-> "show_context",
                   outcome |-> IF pipeline.retrieval_system = 0
                               THEN Err(<<"'NoneType' object has no attribute 'get_context'">>)
                               ELSE Ok(<<"context">>)]
    /\ UNCHANGED <<chainVars, ftq_in, ftq_out, cleanVars, wikiVars, extraVars, sessionVars,
                   pipeline, n_calls, runs>>

\* Clear Chat History
clear_chat_history ==
    /\ pipeline # None
    /\ documents_processed
    /\ session_chat_history' = <<>>
    /\ last_op' = [op |-> "clear_chat_history"]
    /\ UNCHANGED <<chainVars, ftq_in, ftq_out, cleanVars, wikiVars, extraVars, pipeline,
                   n_calls, runs, documents_processed, graph_stats>>

NextSession ==
    \/ \E valid \in BOOLEAN, constructed \in BOOLEAN :
          initialize_system(valid, constructed)
    \/ \E clear_existing \in BOOLEAN, fail \in RaisingStages \cup {"none"} :
          process_document(clear_existing, fail)
    \/ \E q \in Questions : ui_ask_question(q)
    \/ show_context
    \/ clear_chat_history

SpecSession == InitSession /\ [][NextSession]_vars

(* ---- C15 ---- *)
\* C15: the chat history the UI hands to the pipeline with a question has at
\* most 5 turns and is the end of the session history as it was when the
\* question was asked, in the same order: all of it, or its last 5 turns.
\* The turn of the question being asked is not in it: that turn is appended
\* to the session history after the pipeline has answered.
C15_ChatHistoryWindow ==
    last_op.op = "ui_ask_question" =>
        LET h == last_op.handed
            b == last_op.before
        IN  /\ Len(h) <= 5
            /\ Len(h) = (IF Len(b) < 5 THEN Len(b) ELSE 5)
            /\ \A k \in 1..Len(h) : h[k] = b[Len(b) - Len(h) + k]
            /\ session_chat_history =
                   (IF last_op.outcome.ok
                    THEN Append(b, <<last_op.question, last_op.outcome.val>>)
                    ELSE b)

\* a seventh question: six turns before the ask, the last five handed over,
\* the oldest left out
C15_Witness ==
    /\ last_op.op = "ui_ask_question"
    /\ Len(last_op.before) = 6
    /\ last_op.before[1][1] # last_op.before[2][1]
    /\ last_op.handed = SubSeq(last_op.before, 2, 6)
    /\ Len(session_chat_history) = 7

(* ---- C21 ---- *)
\* C21: in every session state in which documents_processed is true, the
\* session's pipeline has a retrieval system, so Ask Question and Show
\* Context, offered only then, never find a pipeline without one.
C21_ProcessedHasRetrievalSystem ==
    documents_processed =>
        /\ pipeline # None
        /\ pipeline.retrieval_system # 0

(* ================= GraphRAGConfig ================= *)
\* a str value; None is the value of an absent field
Str(text) == [kind |-> "str", val |-> text]

\* what a constructor argument can be: absent / None, "", a non-empty text
ArgValues == {None, Str(""), Str("value")}

\* what os.getenv gives: None when the variable is not set, "" when it is
\* set and empty, else its text
EnvValues == {None, Str(""), Str("value")}

\* bool(v) of an Optional[str]
truthy(v) == v # None /\ v.val # ""

\* self.x = self.x or os.getenv("X")
post_init(arg, env) == IF truthy(arg) THEN arg ELSE env

FieldValues == {post_init(arg, env) : arg \in ArgValues, env \in EnvValues}

\* the name get_missing_fields reports for a field
EnvName(field) ==
    CASE field = "azure_openai_endpoint"   -> "AZURE_OPENAI_ENDPOINT"
      [] field = "azure_openai_key"        -> "AZURE_OPENAI_KEY"
      [] field = "azure_openai_deployment" -> "AZURE_OPENAI_DEPLOYMENT"
      [] field = "azure_api_version"       -> "AZURE_API_VERSION"
      [] field = "neo4j_uri"               -> "NEO4J_URI"
      [] field = "neo4j_username"          -> "NEO4J_USERNAME"
      [] field = "neo4j_password"          -> "NEO4J_PASSWORD"
      [] field = "hf_token"                -> "HF_TOKEN"
      [] field = "groq_api_key"            -> "GROQ_API_KEY"

\* all(field is not None for field in required_fields)
validate(c) == \A k \in 1..Len(RequiredFields) : c[RequiredFields[k]] # None

\* if not self.x: missing.append("X"), field after field
get_missing_fields(c) ==
    LET absent == SelectSeq(RequiredFields, LAMBDA f : ~truthy(c[f]))
    IN  [k \in 1..Len(absent) |-> EnvName(absent[k])]

InitConfig ==
    /\ IdleRetrieval
    /\ IdleClean
    /\ IdleWiki
    /\ IdlePipeline
    /\ IdleSession
    /\ IdlePdf
    /\ config \in [FieldNames -> FieldValues]
    /\ validate_called = FALSE
    /\ is_valid = FALSE
    /\ missing_called = FALSE
    /\ missing = <<>>

call_validate ==
    /\ ~validate_called
    /\ validate_called' = TRUE
    /\ is_valid' = validate(config)
    /\ UNCHANGED <<chainVars, ftq_in, ftq_out, cleanVars, wikiVars, pipeVars,
                   sessionVars, pdfVars, config, missing_called, missing>>

call_get_missing_fields ==
    /\ ~missing_called
    /\ missing_called' = TRUE
    /\ missing' = get_missing_fields(config)
    /\ UNCHANGED <<chainVars, ftq_in, ftq_out, cleanVars, wikiVars, pipeVars,
                   sessionVars, pdfVars, config, validate_called, is_valid>>

NextConfig == call_validate \/ call_get_missing_fields

SpecConfig == InitConfig /\ [][NextConfig]_vars

(* ---- C22 ---- *)
\* C22: on one configuration, whatever each of the nine required fields is
\* (None, the empty string, a non-empty text), validate() returns true
\* exactly when get_missing_fields() returns the empty list.
C22_ValidateIffNothingMissing ==
    (validate_called /\ missing_called) => (is_valid <=> missing = <<>>)

(* ================= DocumentLoader.load_from_pdf_file ================= *)
MaxUpload == 3
MaxPages == 2

\* the bytes pdf_file.read() gives, in chunks
UploadChunks == {"%PDF", "obj", "%%EOF"}

Uploads == SeqsUpTo(UploadChunks, MaxUpload)

PdfPages == {"page one", "page two"}

\* what PyPDFLoader(...).load() gives
PdfDocuments == SeqsUpTo(PdfPages, MaxPages)

TmpName == [kind |-> "str", val |-> "/tmp/tmpfile.pdf"]

InitPdf ==
    /\ IdleRetrieval
    /\ IdleClean
    /\ IdleWiki
    /\ IdlePipeline
    /\ IdleSession
    /\ IdleConfig
    /\ pdf_pc = "try"
    /\ pdf_file \in Uploads
    /\ tmp_exists = FALSE
    /\ tmp_content = <<>>
    /\ tmp_file_path = None
    /\ pdf_failed = "none"
    /\ pdf_returned = Pending

pdfRest == <<chainVars, ftq_in, ftq_out, cleanVars, wikiVars, pipeVars,
             sessionVars, configVars>>

\* except Exception: return []  (the finally clause comes next)
pdf_except(step) ==
    /\ pdf_failed' = step
    /\ pdf_returned' = Ok(<<>>)
    /\ pdf_pc' = "finally"

\* with tempfile.NamedTemporaryFile(delete=False, suffix=".pdf") as tmp_file
pdf_create_tmp(ok) ==
    /\ pdf_pc = "try"
    /\ IF ok
       THEN /\ tmp_exists' = TRUE
            /\ pdf_pc' = "with"
            /\ UNCHANGED <<pdf_failed, pdf_returned>>
       ELSE /\ pdf_except("NamedTemporaryFile")
            /\ UNCHANGED tmp_exists
    /\ UNCHANGED <<pdfRest, pdf_file, tmp_content, tmp_file_path>>

\* tmp_file.write(pdf_file.read()); tmp_file_path = tmp_file.name; the file
\* is closed when the with block is left, also by an exception
pdf_write(step) ==
    /\ pdf_pc = "with"
    /\ CASE step = "none" ->
               /\ tmp_content' = pdf_file
               /\ tmp_file_path' = TmpName
               /\ pdf_pc' = "load"
               /\ UNCHANGED <<pdf_failed, pdf_returned>>
         [] step = "read" ->
               /\ pdf_except(step)
               /\ UNCHANGED <<tmp_content, tmp_file_path>>
         [] step = "write" ->
               /\ \E n \in 0..Len(pdf_file) :
                      tmp_content' = SubSeq(pdf_file, 1, n)
               /\ pdf_except(step)
               /\ UNCHANGED tmp_file_path
    /\ UNCHANGED <<pdfRest, pdf_file, tmp_exists>>

\* loader = PyPDFLoader(tmp_file_path); documents = loader.load(); return
pdf_load ==
    /\ pdf_pc = "load"
    /\ \E outcome \in {Ok(docs) : docs \in PdfDocuments}
                          \cup {Err(<<"PyPDFLoader">>), Err(<<"load">>)} :
          IF outcome.ok
          THEN /\ pdf_returned' = outcome
               /\ pdf_pc' = "finally"
               /\ UNCHANGED pdf_failed
          ELSE pdf_except(outcome.val[1])
    /\ UNCHANGED <<pdfRest, pdf_file, tmp_exists, tmp_content, tmp_file_path>>

\* finally: if tmp_file_path and os.path.exists(tmp_file_path): os.unlink(...)
\* and then the pending return; os.unlink can raise
pdf_finally(unlinked) ==
    /\ pdf_pc = "finally"
    /\ IF truthy(tmp_file_path) /\ tmp_exists
       THEN IF unlinked
            THEN /\ tmp_exists' = FALSE
                 /\ pdf_pc' = "returned"
                 /\ UNCHANGED <<pdf_failed, pdf_returned>>
            ELSE /\ pdf_failed' = "unlink"
                 /\ pdf_returned' = Err(<<"unlink">>)
                 /\ pdf_pc' = "raised"
                 /\ UNCHANGED tmp_exists
       ELSE /\ unlinked
            /\ pdf_pc' = "returned"
            /\ UNCHANGED <<tmp_exists, pdf_failed, pdf_returned>>
    /\ UNCHANGED <<pdfRest, pdf_file, tmp_content, tmp_file_path>>

NextPdf ==
    \/ \E ok \in BOOLEAN : pdf_create_tmp(ok)
    \/ \E step \in {"none", "read", "write"} : pdf_write(step)
    \/ pdf_load
    \/ \E unlinked \in BOOLEAN : pdf_finally(unlinked)

SpecPdf == InitPdf /\ [][NextPdf]_vars

(* ---- C23 ---- *)
\* C23: whenever load_from_pdf_file has returned, with documents or with the
\* empty list after a read, write or parse failure, the temporary file it
\* created is not on disk any more; and no exception of the loading steps
\* (creating the file, reading the upload, writing, parsing) leaves the call.
C23_TemporaryFileRemoved ==
    /\ pdf_pc = "returned" => ~tmp_exists
    /\ pdf_pc = "raised" => pdf_failed = "unlink"

====
